---- MODULE Spec2Model ----
(***************************************************************************)
(* Envelope-budgeting ledger (database.js, Dexie implementation).          *)
(*                                                                         *)
(* The store is one set of records per table; every table has an           *)
(* auto-increment primary key ("++id"), kept in nextId.  A where(...)      *)
(* query returns the records whose fields equal the given values, first()  *)
(* the one with the lowest primary key.  Each exported async function is   *)
(* one action under Spec (single logical writer, calls do not overlap).    *)
(* Under SpecAsync a call runs one store operation per step, from one      *)
(* await to the next, and a read may run between the steps of a call in    *)
(* flight.  SpecAllocated starts from the ledger after a first income     *)
(* allocation; SpecSetup starts from the store setupInitialData leaves and *)
(* adds envelopes, categories, snapshots, backup and restore.              *)
(* SpecSpending takes only allocations, expenses above 0 and carry-overs;  *)
(* SpecRace runs two subsidised expenses in flight on one donor;           *)
(* SpecPeriods moves the month shown (useCurrentMonth) over the ends of    *)
(* the four-digit year range and closes the month shown.  The fields       *)
(* note, description, source, createdAt and updatedAt are not modelled.    *)
(* Monetary inputs are non-negative integers (data model of the ledger).   *)
(***************************************************************************)
EXTENDS Integers, Sequences, FiniteSets, TLC

VARIABLES budgets, incomes, allocations, expenses, subsidies, carryovers,
          envelopes, categories, monthlySnapshots,
          nextId, last, calls, writers, reader, useCurrentMonth

vars == <<budgets, incomes, allocations, expenses, subsidies, carryovers,
          envelopes, categories, monthlySnapshots,
          nextId, last, calls, writers, reader, useCurrentMonth>>

tables == <<budgets, incomes, allocations, expenses, subsidies, carryovers>>

catalog == <<envelopes, categories, monthlySnapshots>>

----------------------------------------------------------------------------
(* Bounds of the model *)

MaxAmount == 2    \* budget and expense amounts passed in are 0..MaxAmount
MaxCalls == 2     \* calls made on the engine
MaxWriters == 1   \* mutating calls in flight at a time under SpecAsync

(* Inputs of the calls *)
CategoryIds == {1, 2}
Amounts == 0 .. MaxAmount
CarriedOverInputs == {0, 1}       \* carriedOver passed to setBudget
IncomeAmounts == {1}              \* amount passed to createIncome
AllocationAmounts == {1}          \* amount of an allocation entry
AllocationLengths == {0, 1, 2}    \* length of the allocations argument
IncomeIds == {1}                  \* income ids passed, besides null
ExpenseIds == {1, 2}              \* expense ids passed to deleteExpense
AllocationTypes == {"income", "carryover"}
CarryActions == {"carry", "reset"}

(* JS null and undefined; store ids start at 1 and amounts are >= 0 *)
Null == -1
Undefined == -2

(* Dates and months are strings, modelled as sequences of characters *)
Dates == { <<"2","0","2","5","-","1","2","-","3","1">> }

----------------------------------------------------------------------------
(* Utility functions *)

formatDate(date) == date

getMonthFromDate(dateString) == SubSeq(dateString, 1, 7)

Months == { getMonthFromDate(d) : d \in Dates }

DigitChars == <<"0","1","2","3","4","5","6","7","8","9">>

DigitVal(ch) == (CHOOSE i \in 1..10 : DigitChars[i] = ch) - 1

RECURSIVE Number(_)
Number(s) == IF s = <<>> THEN 0
             ELSE 10 * Number(SubSeq(s, 1, Len(s) - 1)) + DigitVal(s[Len(s)])

RECURSIVE String(_)
String(n) == IF n < 10 THEN <<DigitChars[n + 1]>>
             ELSE String(n \div 10) \o <<DigitChars[(n % 10) + 1]>>

padStart2(s) == IF Len(s) < 2 THEN <<"0">> \o s ELSE s

RECURSIVE split(_)
split(s) ==
  IF \E i \in 1..Len(s) : s[i] = "-"
    THEN LET i == CHOOSE k \in 1..Len(s) :
                    s[k] = "-" /\ \A j \in 1..(k-1) : s[j] # "-"
         IN <<SubSeq(s, 1, i - 1)>> \o split(SubSeq(s, i + 1, Len(s)))
    ELSE <<s>>

(* the year of new Date(year, monthIndex, 1) before the month index is *)
(* counted in: a year from 0 to 99 stands for 1900 + year              *)
DateYear(year) == IF 0 <= year /\ year <= 99 THEN 1900 + year ELSE year

(* new Date(year, month, 1) with month read as a 0-based index, formatted *)
nextMonthOf(fromMonth) ==
  LET parts == split(fromMonth)
      year  == Number(parts[1])
      month == Number(parts[2])
      fullYear == DateYear(year) + (month \div 12)
      getMonth == month % 12
  IN String(fullYear) \o <<"-">> \o padStart2(String(getMonth + 1))

(* new Date(year, month - 2, 1), formatted: an index below 0 falls in the *)
(* year before                                                            *)
prevMonthOf(currentMonth) ==
  LET parts == split(currentMonth)
      year  == Number(parts[1])
      month == Number(parts[2])
      index == month - 2
      fullYear == DateYear(year) + (index \div 12)
      getMonth == index % 12
  IN String(fullYear) \o <<"-">> \o padStart2(String(getMonth + 1))

----------------------------------------------------------------------------
(* Reads *)

RECURSIVE SumAmount(_)
SumAmount(S) == IF S = {} THEN 0
                ELSE LET r == CHOOSE x \in S : TRUE
                     IN r.amount + SumAmount(S \ {r})

NoRecord == [id |-> Null]

first(S) == IF S = {} THEN NoRecord
            ELSE CHOOSE r \in S : \A q \in S : r.id <= q.id

(* variant: the lookup matches the primary key instead of the category *)
getBudgetIn_ById(bs, categoryId, month) ==
  first({b \in bs : b.id = categoryId /\ b.month = month})

getBudgetIn(bs, categoryId, month) ==
  first({b \in bs : b.categoryId = categoryId /\ b.month = month})

getBudget(categoryId, month) == getBudgetIn(budgets, categoryId, month)

getBudgetsByMonth(month) == {b \in budgets : b.month = month}

getExpensesByCategory(categoryId, month) ==
  {e \in expenses : e.categoryId = categoryId /\ e.month = month}

getSubsidiesGiven(categoryId, month) ==
  {s \in {t \in subsidies : t.fromCategoryId = categoryId} : s.month = month}

getSubsidiesReceived(categoryId, month) ==
  {s \in {t \in subsidies : t.toCategoryId = categoryId} : s.month = month}

sumSubsidiesGiven(categoryId, month) ==
  SumAmount(getSubsidiesGiven(categoryId, month))

sumSubsidiesReceived(categoryId, month) ==
  SumAmount(getSubsidiesReceived(categoryId, month))

sumExpenses(categoryId, month) ==
  SumAmount(getExpensesByCategory(categoryId, month))

(* variant: the subsidies given are not charged to the donor *)
getBudgetRemaining_NoGiven(categoryId, month) ==
  LET budget == getBudget(categoryId, month)
  IN IF budget.id = Null THEN 0
     ELSE budget.totalBudget + sumSubsidiesReceived(categoryId, month)
            - sumExpenses(categoryId, month)

(* variant: a pair without a Budget row counts as an empty Budget *)
getBudgetRemaining_EmptyBudget(categoryId, month) ==
  LET budget == getBudget(categoryId, month)
      totalBudget == IF budget.id = Null THEN 0 ELSE budget.totalBudget
  IN totalBudget + sumSubsidiesReceived(categoryId, month)
       - sumExpenses(categoryId, month)
       - sumSubsidiesGiven(categoryId, month)

getBudgetRemaining(categoryId, month) ==
  LET budget == getBudget(categoryId, month)
  IN IF budget.id = Null THEN 0
     ELSE budget.totalBudget + sumSubsidiesReceived(categoryId, month)
            - sumExpenses(categoryId, month)
            - sumSubsidiesGiven(categoryId, month)


(* variant: remaining computed from the nominal budget and carry-over *)
getBudgetBreakdown_Nominal(categoryId, month) ==
  LET budget == getBudget(categoryId, month)
      actualSpent == sumExpenses(categoryId, month)
      subsidyReceived == sumSubsidiesReceived(categoryId, month)
      subsidyGiven == sumSubsidiesGiven(categoryId, month)
      totalSpent == actualSpent + subsidyGiven
  IN IF budget.id = Null
       THEN [originalBudget |-> 0, carriedOver |-> 0, totalBudget |-> 0,
             actualSpent |-> 0, subsidyReceived |-> 0, subsidyGiven |-> 0,
             totalSpent |-> 0, remaining |-> 0]
       ELSE [originalBudget |-> budget.budgetAmount,
             carriedOver |-> budget.carriedOver,
             totalBudget |-> budget.totalBudget,
             actualSpent |-> actualSpent,
             subsidyReceived |-> subsidyReceived,
             subsidyGiven |-> subsidyGiven,
             totalSpent |-> totalSpent,
             remaining |-> budget.budgetAmount + budget.carriedOver
                             + subsidyReceived - actualSpent - subsidyGiven]

getBudgetBreakdown(categoryId, month) ==
  LET budget == getBudget(categoryId, month)
      actualSpent == sumExpenses(categoryId, month)
      subsidyReceived == sumSubsidiesReceived(categoryId, month)
      subsidyGiven == sumSubsidiesGiven(categoryId, month)
      totalSpent == actualSpent + subsidyGiven
  IN IF budget.id = Null
       THEN [originalBudget |-> 0, carriedOver |-> 0, totalBudget |-> 0,
             actualSpent |-> 0, subsidyReceived |-> 0, subsidyGiven |-> 0,
             totalSpent |-> 0, remaining |-> 0]
       ELSE [originalBudget |-> budget.budgetAmount,
             carriedOver |-> budget.carriedOver,
             totalBudget |-> budget.totalBudget,
             actualSpent |-> actualSpent,
             subsidyReceived |-> subsidyReceived,
             subsidyGiven |-> subsidyGiven,
             totalSpent |-> totalSpent,
             remaining |-> budget.totalBudget + subsidyReceived
                             - actualSpent - subsidyGiven]

----------------------------------------------------------------------------
(* Store writes *)

(* table.update(id, changes): the changed fields replace the stored ones *)
update(table, id, changes) ==
  {IF r.id = id THEN changes @@ r ELSE r : r \in table}

(* new Error(message, options): the only option Error reads is `cause`, *)
(* so no other property of the options object reaches the error value   *)
Error(message, options) ==
  [message |-> message, available |-> Undefined, required |-> Undefined]

(* the guard of createExpense, and two variants of it *)
insufficient_OrEqual(remaining, amount) == remaining <= amount

insufficient_Exhausted(remaining, amount) == remaining <= 0

insufficient(remaining, amount) == remaining < amount

(* the donor check of createExpenseWithSubsidy, and a variant with the *)
(* operands of the comparison swapped                                  *)
deficitOf(amount, recipientRemaining) == amount - recipientRemaining

donorInsufficient_Swapped(donorRemaining, deficit) == deficit < donorRemaining

donorInsufficient(donorRemaining, deficit) == donorRemaining < deficit

(* step 3 of createExpenseWithSubsidy: the fields written to the recipient, *)
(* and a variant that raises the nominal budget as well                    *)
recipientBudgetChanges_Nominal(recipientBudget, deficit) ==
  [budgetAmount |-> recipientBudget.budgetAmount + deficit,
   totalBudget |-> recipientBudget.totalBudget + deficit]

recipientBudgetChanges(recipientBudget, deficit) ==
  [totalBudget |-> recipientBudget.totalBudget + deficit]

(* the two guards of processCarryOver, with a variant of each *)
nothingToCarry_Negative(remainingBudget) == remainingBudget < 0

nothingToCarry(remainingBudget) == remainingBudget <= 0

excessCarry_Swapped(amountToCarry, remainingBudget) ==
  remainingBudget > amountToCarry

excessCarry(amountToCarry, remainingBudget) == amountToCarry > remainingBudget

(* the amount processCarryOver settles, and a variant without partial *)
(* amounts                                                            *)
amountToCarryOf_Full(carriedAmount, remainingBudget) == remainingBudget

amountToCarryOf(carriedAmount, remainingBudget) ==
  IF carriedAmount # Null THEN carriedAmount ELSE remainingBudget

(* the fields processCarryOver writes to an existing Budget of the next *)
(* month                                                                *)
(* variant: the next month's budget is raised whatever the action *)
carriesForward_AnyAction(action, amountToCarry) == amountToCarry > 0

(* if (action === 'carry' && amountToCarry > 0) *)
carriesForward(action, amountToCarry) ==
  action = "carry" /\ amountToCarry > 0

carriedBudgetChanges(nextBudget, amountToCarry) ==
  [carriedOver |-> nextBudget.carriedOver + amountToCarry,
   totalBudget |-> nextBudget.totalBudget + amountToCarry]

NoError == [message |-> "", available |-> Undefined, required |-> Undefined]

(* a call that throws, or returns nothing, leaves no return value; *)
(* return values are records                                        *)
NoRet == [undefined |-> TRUE]

(* variant of setBudget: the amounts are added to those of the stored row *)
setBudgetIn_Accumulate(bs, nid, categoryId, month, budgetAmount, carriedOver) ==
  LET existing == getBudgetIn(bs, categoryId, month)
      budgetData == [categoryId |-> categoryId, month |-> month,
                     budgetAmount |-> budgetAmount,
                     carriedOver |-> carriedOver,
                     totalBudget |-> budgetAmount + carriedOver]
      added == [budgetAmount |-> existing.budgetAmount + budgetAmount,
                carriedOver |-> existing.carriedOver + carriedOver,
                totalBudget |-> existing.totalBudget + budgetAmount
                                  + carriedOver]
  IN IF existing.id # Null
       THEN [budgets |-> update(bs, existing.id, added),
             nid |-> nid,
             ret |-> added @@ existing]
       ELSE [budgets |-> bs \cup {[id |-> nid] @@ budgetData},
             nid |-> nid + 1,
             ret |-> [id |-> nid] @@ budgetData]

(* setBudget on explicit tables: the new budgets table, key and result *)
setBudgetIn(bs, nid, categoryId, month, budgetAmount, carriedOver) ==
  LET existing == getBudgetIn(bs, categoryId, month)
      budgetData == [categoryId |-> categoryId, month |-> month,
                     budgetAmount |-> budgetAmount,
                     carriedOver |-> carriedOver,
                     totalBudget |-> budgetAmount + carriedOver]
  IN IF existing.id # Null
       THEN [budgets |-> update(bs, existing.id, budgetData),
             nid |-> nid,
             ret |-> budgetData @@ existing]
       ELSE [budgets |-> bs \cup {[id |-> nid] @@ budgetData},
             nid |-> nid + 1,
             ret |-> [id |-> nid] @@ budgetData]

----------------------------------------------------------------------------
(* Operations.  Every call is counted; the engine takes MaxCalls calls. *)

(* a call in flight: Idle when there is none *)
Idle == [op |-> "idle", pc |-> "done"]

Counted ==
  /\ calls < MaxCalls
  /\ calls' = calls + 1
  /\ UNCHANGED <<writers, reader, useCurrentMonth>>

(* a call that leaves envelopes, categories and snapshots alone *)
Called ==
  /\ Counted
  /\ UNCHANGED catalog

(* the key generators of the empty store *)
FirstIds == [budgets |-> 1, incomes |-> 1, allocations |-> 1,
             expenses |-> 1, subsidies |-> 1, carryovers |-> 1,
             envelopes |-> 1, categories |-> 1, monthlySnapshots |-> 1]

Init ==
  /\ budgets = {}
  /\ incomes = {}
  /\ allocations = {}
  /\ expenses = {}
  /\ subsidies = {}
  /\ carryovers = {}
  /\ envelopes = {}
  /\ categories = {}
  /\ monthlySnapshots = {}
  /\ nextId = FirstIds
  /\ calls = 0
  /\ writers = [w \in 1..MaxWriters |-> Idle]
  /\ reader = Idle
  /\ last = [op |-> "init", ok |-> TRUE, error |-> NoError, ret |-> NoRet]
  /\ useCurrentMonth \in Months

SetBudget(categoryId, month, budgetAmount, carriedOver) ==
  /\ Called
  /\ LET r == setBudgetIn(budgets, nextId.budgets, categoryId, month,
                          budgetAmount, carriedOver)
         nid == [nextId EXCEPT !.budgets = r.nid]
     IN /\ budgets' = r.budgets
        /\ nextId' = nid
        /\ last' = [op |-> "setBudget", ok |-> TRUE, error |-> NoError,
                    ret |-> r.ret]
        /\ UNCHANGED <<incomes, allocations, expenses, subsidies, carryovers>>

(* variant of the loop below: the previous totalBudget is copied *)
RECURSIVE autoFillLoop_TotalBudget(_, _, _)
autoFillLoop_TotalBudget(st, prevBudgets, currentMonth) ==
  IF prevBudgets = {} THEN st
  ELSE
    LET prevBudget == first(prevBudgets)
        existing == getBudgetIn(st.budgets, prevBudget.categoryId,
                                currentMonth)
        r == setBudgetIn(st.budgets, st.nid, prevBudget.categoryId,
                         currentMonth, prevBudget.totalBudget, 0)
    IN autoFillLoop_TotalBudget(
         IF existing.id = Null
           THEN [budgets |-> r.budgets, nid |-> r.nid,
                 filled |-> st.filled + 1]
           ELSE st,
         prevBudgets \ {prevBudget}, currentMonth)

(* the for-loop of autoFillBudgetsFromPreviousMonth over the previous *)
(* month's budgets not yet visited, in primary-key order             *)
RECURSIVE autoFillLoop(_, _, _)
autoFillLoop(st, prevBudgets, currentMonth) ==
  IF prevBudgets = {} THEN st
  ELSE
    LET prevBudget == first(prevBudgets)
        existing == getBudgetIn(st.budgets, prevBudget.categoryId,
                                currentMonth)
        r == setBudgetIn(st.budgets, st.nid, prevBudget.categoryId,
                         currentMonth, prevBudget.budgetAmount, 0)
    IN autoFillLoop(
         IF existing.id = Null
           THEN [budgets |-> r.budgets, nid |-> r.nid,
                 filled |-> st.filled + 1]
           ELSE st,
         prevBudgets \ {prevBudget}, currentMonth)

(* the message of the result is not modelled *)
AutoFillBudgetsFromPreviousMonth(currentMonth) ==
  /\ Called
  /\ LET prevMonth == prevMonthOf(currentMonth)
         prevBudgets == getBudgetsByMonth(prevMonth)
         r == autoFillLoop([budgets |-> budgets, nid |-> nextId.budgets,
                            filled |-> 0],
                           prevBudgets, currentMonth)
     IN /\ budgets' = r.budgets
        /\ nextId' = [nextId EXCEPT !.budgets = r.nid]
        /\ last' = [op |-> "autoFillBudgetsFromPreviousMonth", ok |-> TRUE,
                    error |-> NoError, ret |-> [filled |-> r.filled]]
        /\ UNCHANGED <<incomes, allocations, expenses, subsidies, carryovers>>

CreateIncome(date, amount) ==
  /\ Called
  /\ LET dateStr == formatDate(date)
         month == getMonthFromDate(dateStr)
         id == nextId.incomes
         nid == [nextId EXCEPT !.incomes = id + 1]
     IN /\ incomes' = incomes \cup {[id |-> id, date |-> dateStr,
                                     month |-> month, amount |-> amount,
                                     isAllocated |-> FALSE]}
        /\ nextId' = nid
        /\ last' = [op |-> "createIncome", ok |-> TRUE, error |-> NoError,
                    ret |-> [id |-> id, date |-> dateStr, month |-> month,
                             amount |-> amount, isAllocated |-> FALSE]]
        /\ UNCHANGED <<budgets, allocations, expenses, subsidies, carryovers>>

(* variant: the update is keyed by the following id *)
markIncomeAsAllocatedIn_WrongKey(incs, incomeId) ==
  update(incs, incomeId + 1, [isAllocated |-> TRUE])

markIncomeAsAllocatedIn(incs, incomeId) ==
  update(incs, incomeId, [isAllocated |-> TRUE])

(* the fields allocateIncomeToBudgets writes to an existing Budget, and a *)
(* variant that overwrites them with the entry's amount                  *)
allocatedBudgetChanges_Overwrite(budget, amount) ==
  [budgetAmount |-> amount, totalBudget |-> amount]

allocatedBudgetChanges(budget, amount) ==
  [budgetAmount |-> budget.budgetAmount + amount,
   totalBudget |-> budget.totalBudget + amount]

(* the for-loop of allocateIncomeToBudgets from entry i on *)
RECURSIVE allocateLoop(_, _, _, _, _)
allocateLoop(st, incomeId, allocs, type, i) ==
  IF i > Len(allocs) THEN st
  ELSE
    LET allocation == allocs[i]
        budget == getBudgetIn(st.budgets, allocation.categoryId,
                              allocation.month)
        created == setBudgetIn(st.budgets, st.nid.budgets,
                               allocation.categoryId, allocation.month,
                               allocation.amount, 0)
        budgetId == IF budget.id = Null THEN created.ret.id ELSE budget.id
        bs == IF budget.id = Null
                THEN created.budgets
                ELSE update(st.budgets, budget.id,
                       allocatedBudgetChanges(budget, allocation.amount))
        nidB == IF budget.id = Null THEN created.nid ELSE st.nid.budgets
        allocationId == st.nid.allocations
    IN allocateLoop(
         [budgets |-> bs,
          allocations |-> st.allocations \cup
             {[id |-> allocationId, incomeId |-> incomeId,
               budgetId |-> budgetId, amount |-> allocation.amount,
               type |-> type]},
          nid |-> [st.nid EXCEPT !.budgets = nidB,
                                 !.allocations = allocationId + 1],
          results |-> Append(st.results,
             [allocationId |-> allocationId, budgetId |-> budgetId,
              categoryId |-> allocation.categoryId,
              amount |-> allocation.amount])],
         incomeId, allocs, type, i + 1)

AllocateIncomeToBudgets(incomeId, allocs, type) ==
  /\ Called
  /\ LET r == allocateLoop([budgets |-> budgets, allocations |-> allocations,
                            nid |-> nextId, results |-> <<>>],
                           incomeId, allocs, type, 1)
     IN /\ budgets' = r.budgets
        /\ allocations' = r.allocations
        /\ nextId' = r.nid
        /\ incomes' = IF incomeId # Null /\ incomeId # 0
                        THEN markIncomeAsAllocatedIn(incomes, incomeId)
                        ELSE incomes
        /\ last' = [op |-> "allocateIncomeToBudgets", ok |-> TRUE,
                    error |-> NoError, ret |-> [results |-> r.results]]
        /\ UNCHANGED <<expenses, subsidies, carryovers>>

CreateExpense(date, categoryId, amount) ==
  /\ Called
  /\ LET dateStr == formatDate(date)
         month == getMonthFromDate(dateStr)
         remaining == getBudgetRemaining(categoryId, month)
         id == nextId.expenses
         nid == [nextId EXCEPT !.expenses = id + 1]
     IN IF insufficient(remaining, amount)
          THEN /\ last' = [op |-> "createExpense", ok |-> FALSE,
                           error |-> Error("BUDGET_INSUFFICIENT",
                                       [categoryId |-> categoryId,
                                        month |-> month,
                                        required |-> amount,
                                        available |-> remaining]),
                           ret |-> NoRet]
               /\ UNCHANGED <<tables, nextId>>
          ELSE /\ expenses' = expenses \cup
                    {[id |-> id, date |-> dateStr, month |-> month,
                      categoryId |-> categoryId, amount |-> amount,
                      isOverBudget |-> FALSE]}
               /\ nextId' = nid
               /\ last' = [op |-> "createExpense", ok |-> TRUE,
                           error |-> NoError,
                           ret |-> [id |-> id, date |-> dateStr,
                                    month |-> month, categoryId |-> categoryId,
                                    amount |-> amount, isOverBudget |-> FALSE]]
               /\ UNCHANGED <<budgets, incomes, allocations, subsidies,
                              carryovers>>


CreateExpenseWithSubsidy(date, categoryId, amount, fromCategoryId) ==
  /\ Called
  /\ LET dateStr == formatDate(date)
         month == getMonthFromDate(dateStr)
         donorRemaining == getBudgetRemaining(fromCategoryId, month)
         recipientRemaining == getBudgetRemaining(categoryId, month)
         deficit == deficitOf(amount, recipientRemaining)
         expenseId == nextId.expenses
         subsidyId == nextId.subsidies
         nid == [nextId EXCEPT !.expenses = expenseId + 1,
                               !.subsidies = subsidyId + 1]
         recipientBudget == getBudget(categoryId, month)
     IN IF donorInsufficient(donorRemaining, deficit)
          THEN /\ last' = [op |-> "createExpenseWithSubsidy", ok |-> FALSE,
                           error |-> Error(
                             "Donor category does not have enough budget",
                             [cause |-> Undefined]),
                           ret |-> NoRet]
               /\ UNCHANGED <<tables, nextId>>
          ELSE /\ expenses' = expenses \cup
                    {[id |-> expenseId, date |-> dateStr, month |-> month,
                      categoryId |-> categoryId, amount |-> amount,
                      isOverBudget |-> TRUE]}
               /\ subsidies' = subsidies \cup
                    {[id |-> subsidyId, expenseId |-> expenseId,
                      fromCategoryId |-> fromCategoryId,
                      toCategoryId |-> categoryId, amount |-> deficit,
                      month |-> month]}
               /\ budgets' = IF recipientBudget.id # Null
                               THEN update(budgets, recipientBudget.id,
                                  recipientBudgetChanges(recipientBudget,
                                                         deficit))
                               ELSE budgets
               /\ nextId' = nid
               /\ last' = [op |-> "createExpenseWithSubsidy", ok |-> TRUE,
                           error |-> NoError,
                           ret |-> [expenseId |-> expenseId,
                                    subsidyId |-> subsidyId,
                                    deficit |-> deficit,
                                    expense |->
                                      [id |-> expenseId, date |-> dateStr,
                                       month |-> month,
                                       categoryId |-> categoryId,
                                       amount |-> amount,
                                       isOverBudget |-> TRUE],
                                    subsidy |->
                                      [id |-> subsidyId,
                                       expenseId |-> expenseId,
                                       fromCategoryId |-> fromCategoryId,
                                       toCategoryId |-> categoryId,
                                       amount |-> deficit, month |-> month]]]
               /\ UNCHANGED <<incomes, allocations, carryovers>>

DeleteExpense(expenseId) ==
  /\ Called
  /\ subsidies' = {s \in subsidies : s.expenseId # expenseId}
  /\ expenses' = {e \in expenses : e.id # expenseId}
  /\ last' = [op |-> "deleteExpense", ok |-> TRUE, error |-> NoError,
              ret |-> NoRet]
  /\ UNCHANGED <<budgets, incomes, allocations, carryovers, nextId>>

ProcessCarryOver(categoryId, fromMonth, action, carriedAmount) ==
  /\ Called
  /\ LET toMonth == nextMonthOf(fromMonth)
         remainingBudget == getBudgetRemaining(categoryId, fromMonth)
         amountToCarry == amountToCarryOf(carriedAmount, remainingBudget)
         carryoverId == nextId.carryovers
         carried == IF action = "carry" THEN amountToCarry ELSE 0
         nextBudget == getBudget(categoryId, toMonth)
         created == setBudgetIn(budgets, nextId.budgets, categoryId, toMonth,
                                0, amountToCarry)
         doCarry == carriesForward(action, amountToCarry)
         bs == IF ~doCarry THEN budgets
               ELSE IF nextBudget.id # Null
                 THEN update(budgets, nextBudget.id,
                        carriedBudgetChanges(nextBudget, amountToCarry))
                 ELSE created.budgets
         nidB == IF doCarry /\ nextBudget.id = Null THEN created.nid
                 ELSE nextId.budgets
         newBudget == getBudgetIn(bs, categoryId, toMonth)
         nid == [nextId EXCEPT
                   !.carryovers = carryoverId + 1,
                   !.budgets = nidB,
                   !.allocations = IF doCarry THEN @ + 1 ELSE @]
     IN IF nothingToCarry(remainingBudget)
          THEN /\ last' = [op |-> "processCarryOver", ok |-> TRUE,
                           error |-> NoError,
                           ret |-> [success |-> FALSE,
                                    message |->
                                      "No remaining budget to carry over"]]
               /\ UNCHANGED <<tables, nextId>>
        ELSE IF excessCarry(amountToCarry, remainingBudget)
          THEN /\ last' = [op |-> "processCarryOver", ok |-> FALSE,
                           error |-> Error(
                             "Cannot carry more than remaining budget",
                             [cause |-> Undefined]),
                           ret |-> NoRet]
               /\ UNCHANGED <<tables, nextId>>
          ELSE /\ carryovers' = carryovers \cup
                    {[id |-> carryoverId, categoryId |-> categoryId,
                      fromMonth |-> fromMonth, toMonth |-> toMonth,
                      remainingBudget |-> remainingBudget,
                      carriedAmount |-> carried, action |-> action]}
               /\ budgets' = bs
               /\ allocations' = IF doCarry
                    THEN allocations \cup
                           {[id |-> nextId.allocations, incomeId |-> Null,
                             budgetId |-> newBudget.id,
                             amount |-> amountToCarry, type |-> "carryover"]}
                    ELSE allocations
               /\ nextId' = nid
               /\ last' = [op |-> "processCarryOver", ok |-> TRUE,
                           error |-> NoError,
                           ret |-> [success |-> TRUE,
                                    carryoverId |-> carryoverId,
                                    action |-> action,
                                    fromMonth |-> fromMonth,
                                    toMonth |-> toMonth,
                                    remainingBudget |-> remainingBudget,
                                    carriedAmount |-> carried]]
               /\ UNCHANGED <<incomes, expenses, subsidies>>

----------------------------------------------------------------------------
(* Inputs *)

(* the months the calls are made for: those of the dates and the next *)
CallMonths == Months \cup {nextMonthOf(m) : m \in Months}

AllocationEntries ==
  [categoryId : CategoryIds, month : Months, amount : AllocationAmounts]

AllocationLists ==
  UNION {[1..n -> AllocationEntries] : n \in AllocationLengths}

Next ==
  \/ \E c \in CategoryIds, m \in Months, b \in Amounts,
        co \in CarriedOverInputs :
       SetBudget(c, m, b, co)
  \/ \E m \in CallMonths : AutoFillBudgetsFromPreviousMonth(m)
  \/ \E d \in Dates, a \in IncomeAmounts : CreateIncome(d, a)
  \/ \E i \in {Null} \cup IncomeIds, L \in AllocationLists,
        t \in AllocationTypes :
       AllocateIncomeToBudgets(i, L, t)
  \/ \E d \in Dates, c \in CategoryIds, a \in Amounts :
       CreateExpense(d, c, a)
  \/ \E d \in Dates, c \in CategoryIds, a \in Amounts, f \in CategoryIds :
       CreateExpenseWithSubsidy(d, c, a, f)
  \/ \E e \in ExpenseIds : DeleteExpense(e)
  \/ \E c \in CategoryIds, m \in Months, act \in CarryActions,
        ca \in {Null} \cup Amounts :
       ProcessCarryOver(c, m, act, ca)

Spec == Init /\ [][Next]_vars

----------------------------------------------------------------------------
(* Calls in flight.  A call in flight performs one store operation per     *)
(* step; what it has read so far is kept in its record.                    *)

InFlight == {writers[w].call : w \in {v \in 1..MaxWriters :
                                        writers[v].pc # "done"}}

(* getBudgetRemaining and getBudgetBreakdown from one await to the next: *)
(* at counts the store reads done                                        *)
NewRead == [at |-> 0, budget |-> NoRecord, totalExpenses |-> 0,
            subsidiesReceived |-> 0, subsidiesGiven |-> 0]

readStep(rd, categoryId, month) ==
  CASE rd.at = 0 ->
         LET budget == getBudget(categoryId, month)
         IN [rd EXCEPT !.budget = budget,
                       !.at = IF budget.id = Null THEN 4 ELSE 1]
    [] rd.at = 1 ->
         [rd EXCEPT !.totalExpenses = sumExpenses(categoryId, month),
                    !.at = 2]
    [] rd.at = 2 ->
         [rd EXCEPT !.subsidiesReceived =
                       sumSubsidiesReceived(categoryId, month),
                    !.at = 3]
    [] rd.at = 3 ->
         [rd EXCEPT !.subsidiesGiven = sumSubsidiesGiven(categoryId, month),
                    !.at = 4]

remainingOf(rd) ==
  IF rd.budget.id = Null THEN 0
  ELSE rd.budget.totalBudget + rd.subsidiesReceived - rd.totalExpenses
         - rd.subsidiesGiven

breakdownOf(rd) ==
  IF rd.budget.id = Null
    THEN [originalBudget |-> 0, carriedOver |-> 0, totalBudget |-> 0,
          actualSpent |-> 0, subsidyReceived |-> 0, subsidyGiven |-> 0,
          totalSpent |-> 0, remaining |-> 0]
    ELSE [originalBudget |-> rd.budget.budgetAmount,
          carriedOver |-> rd.budget.carriedOver,
          totalBudget |-> rd.budget.totalBudget,
          actualSpent |-> rd.totalExpenses,
          subsidyReceived |-> rd.subsidiesReceived,
          subsidyGiven |-> rd.subsidiesGiven,
          totalSpent |-> rd.totalExpenses + rd.subsidiesGiven,
          remaining |-> rd.budget.totalBudget + rd.subsidiesReceived
                          - rd.totalExpenses - rd.subsidiesGiven]

ReadOps == {"getBudgetRemaining", "getBudgetBreakdown"}

(* a read is called; seen collects the mutating calls in flight during it *)
StartRead(op, categoryId, month) ==
  /\ reader.pc = "done"
  /\ reader' = [op |-> op, pc |-> "reading", categoryId |-> categoryId,
                month |-> month, rd |-> NewRead, from |-> calls,
                seen |-> InFlight, value |-> NoRet]
  /\ UNCHANGED <<tables, catalog, useCurrentMonth,
                 nextId, last, calls, writers>>

(* the next store read of the read in flight; after the last one it *)
(* returns                                                          *)
StepRead ==
  /\ reader.pc = "reading"
  /\ LET rd == readStep(reader.rd, reader.categoryId, reader.month)
         seen == reader.seen \cup InFlight \cup ((reader.from + 1)..calls)
     IN reader' = [reader EXCEPT
                     !.rd = rd,
                     !.seen = seen,
                     !.pc = IF rd.at = 4 THEN "done" ELSE "reading",
                     !.value = IF rd.at # 4 THEN NoRet
                               ELSE IF reader.op = "getBudgetRemaining"
                                 THEN [remaining |-> remainingOf(rd)]
                                 ELSE breakdownOf(rd)]
  /\ UNCHANGED <<tables, catalog, useCurrentMonth,
                 nextId, last, calls, writers>>

(* a mutating call is accepted in a free slot and counted *)
Accepted(w) ==
  /\ writers[w].pc = "done"
  /\ calls < MaxCalls
  /\ calls' = calls + 1
  /\ UNCHANGED <<catalog, useCurrentMonth>>

CreateExpenseWithSubsidyOp == "createExpenseWithSubsidy"

StartCreateExpenseWithSubsidy(w, date, categoryId, amount, fromCategoryId) ==
  /\ Accepted(w)
  /\ LET dateStr == formatDate(date)
         month == getMonthFromDate(dateStr)
     IN writers' = [writers EXCEPT ![w] =
          [op |-> CreateExpenseWithSubsidyOp, pc |-> "donorRemaining",
           call |-> calls + 1, before |-> tables, ok |-> TRUE,
           dateStr |-> dateStr, month |-> month, categoryId |-> categoryId,
           amount |-> amount, fromCategoryId |-> fromCategoryId,
           rd |-> NewRead, donorRemaining |-> 0, recipientRemaining |-> 0,
           deficit |-> 0, expenseId |-> Null, subsidyId |-> Null,
           recipientBudget |-> NoRecord]]
  /\ UNCHANGED <<tables, nextId, last, reader>>

(* the result of createExpenseWithSubsidy *)
subsidyResult(W) ==
  [op |-> CreateExpenseWithSubsidyOp, ok |-> TRUE, error |-> NoError,
   ret |-> [expenseId |-> W.expenseId, subsidyId |-> W.subsidyId,
            deficit |-> W.deficit,
            expense |-> [id |-> W.expenseId, date |-> W.dateStr,
                         month |-> W.month, categoryId |-> W.categoryId,
                         amount |-> W.amount, isOverBudget |-> TRUE],
            subsidy |-> [id |-> W.subsidyId, expenseId |-> W.expenseId,
                         fromCategoryId |-> W.fromCategoryId,
                         toCategoryId |-> W.categoryId,
                         amount |-> W.deficit, month |-> W.month]]]

(* the step of createExpenseWithSubsidy at W.pc: the call's record, the *)
(* tables it writes and the result, if it ends                          *)
subsidyStep(W) ==
  LET same == [w |-> W, budgets |-> budgets, expenses |-> expenses,
               subsidies |-> subsidies, nextId |-> nextId, last |-> last]
  IN CASE W.pc = "donorRemaining" ->
            LET rd == readStep(W.rd, W.fromCategoryId, W.month)
            IN [same EXCEPT !.w =
                  IF rd.at # 4 THEN [W EXCEPT !.rd = rd]
                  ELSE [W EXCEPT !.rd = NewRead,
                                 !.donorRemaining = remainingOf(rd),
                                 !.pc = "recipientRemaining"]]
       [] W.pc = "recipientRemaining" ->
            LET rd == readStep(W.rd, W.categoryId, W.month)
                recipientRemaining == remainingOf(rd)
                deficit == deficitOf(W.amount, recipientRemaining)
            IN IF rd.at # 4 THEN [same EXCEPT !.w = [W EXCEPT !.rd = rd]]
               ELSE IF donorInsufficient(W.donorRemaining, deficit)
                 THEN [same EXCEPT
                         !.w = [W EXCEPT !.rd = NewRead,
                                  !.recipientRemaining = recipientRemaining,
                                  !.deficit = deficit,
                                  !.ok = FALSE, !.pc = "done"],
                         !.last = [op |-> CreateExpenseWithSubsidyOp,
                                   ok |-> FALSE,
                                   error |-> Error(
                                     "Donor category does not have enough budget",
                                     [cause |-> Undefined]),
                                   ret |-> NoRet]]
                 ELSE [same EXCEPT
                         !.w = [W EXCEPT !.rd = NewRead,
                                  !.recipientRemaining = recipientRemaining,
                                  !.deficit = deficit,
                                  !.pc = "addExpense"]]
       [] W.pc = "addExpense" ->
            [same EXCEPT
               !.expenses = expenses \cup
                  {[id |-> nextId.expenses, date |-> W.dateStr,
                    month |-> W.month, categoryId |-> W.categoryId,
                    amount |-> W.amount, isOverBudget |-> TRUE]},
               !.nextId = [nextId EXCEPT !.expenses = @ + 1],
               !.w = [W EXCEPT !.expenseId = nextId.expenses,
                               !.pc = "addSubsidy"]]
       [] W.pc = "addSubsidy" ->
            [same EXCEPT
               !.subsidies = subsidies \cup
                  {[id |-> nextId.subsidies, expenseId |-> W.expenseId,
                    fromCategoryId |-> W.fromCategoryId,
                    toCategoryId |-> W.categoryId, amount |-> W.deficit,
                    month |-> W.month]},
               !.nextId = [nextId EXCEPT !.subsidies = @ + 1],
               !.w = [W EXCEPT !.subsidyId = nextId.subsidies,
                               !.pc = "getBudget"]]
       [] W.pc = "getBudget" ->
            LET recipientBudget == getBudget(W.categoryId, W.month)
            IN IF recipientBudget.id # Null
                 THEN [same EXCEPT
                         !.w = [W EXCEPT !.recipientBudget = recipientBudget,
                                         !.pc = "updateBudget"]]
                 ELSE [same EXCEPT
                         !.w = [W EXCEPT !.pc = "done"],
                         !.last = subsidyResult(W)]
       [] W.pc = "updateBudget" ->
            [same EXCEPT
               !.budgets = update(budgets, W.recipientBudget.id,
                             recipientBudgetChanges(W.recipientBudget,
                                                    W.deficit)),
               !.w = [W EXCEPT !.pc = "done"],
               !.last = subsidyResult(W)]

StepCreateExpenseWithSubsidy(w) ==
  /\ writers[w].op = CreateExpenseWithSubsidyOp
  /\ writers[w].pc # "done"
  /\ LET n == subsidyStep(writers[w])
     IN /\ writers' = [writers EXCEPT ![w] = n.w]
        /\ budgets' = n.budgets
        /\ expenses' = n.expenses
        /\ subsidies' = n.subsidies
        /\ nextId' = n.nextId
        /\ last' = n.last
  /\ UNCHANGED <<incomes, allocations, carryovers, calls, reader,
                 catalog, useCurrentMonth>>

(* the store rejects the write createExpenseWithSubsidy is about to make: *)
(* the catch block logs the store's error and throws it again             *)
FailCreateExpenseWithSubsidy(w) ==
  /\ writers[w].op = CreateExpenseWithSubsidyOp
  /\ writers[w].pc \in {"addExpense", "addSubsidy", "updateBudget"}
  /\ writers' = [writers EXCEPT ![w].pc = "done", ![w].ok = FALSE]
  /\ last' = [op |-> CreateExpenseWithSubsidyOp, ok |-> FALSE,
              error |-> Error("store error", [cause |-> Undefined]),
              ret |-> NoRet]
  /\ UNCHANGED <<tables, nextId, calls, reader,
                 catalog, useCurrentMonth>>

(* the write of setBudget once it has looked the row up: existing is what *)
(* the lookup returned                                                    *)
setBudgetWrite(existing, categoryId, month, budgetAmount, carriedOver) ==
  LET budgetData == [categoryId |-> categoryId, month |-> month,
                     budgetAmount |-> budgetAmount,
                     carriedOver |-> carriedOver,
                     totalBudget |-> budgetAmount + carriedOver]
  IN IF existing.id # Null
       THEN [budgets |-> update(budgets, existing.id, budgetData),
             nid |-> nextId.budgets,
             ret |-> budgetData @@ existing]
       ELSE [budgets |-> budgets \cup {[id |-> nextId.budgets] @@ budgetData},
             nid |-> nextId.budgets + 1,
             ret |-> [id |-> nextId.budgets] @@ budgetData]

AllocateOp == "allocateIncomeToBudgets"

(* if (incomeId) *)
truthy(incomeId) == incomeId # Null /\ incomeId # 0

StartAllocateIncomeToBudgets(w, incomeId, allocs, type) ==
  /\ Accepted(w)
  /\ LET returns == allocs = <<>> /\ ~truthy(incomeId)
     IN /\ writers' = [writers EXCEPT ![w] =
             [op |-> AllocateOp,
              pc |-> IF returns THEN "done"
                     ELSE IF allocs = <<>> THEN "markIncome"
                     ELSE "getBudget",
              call |-> calls + 1, before |-> tables, ok |-> TRUE,
              incomeId |-> incomeId, allocations |-> allocs, type |-> type,
              i |-> 1, budget |-> NoRecord, existing |-> NoRecord,
              results |-> <<>>]]
        /\ last' = IF returns
                     THEN [op |-> AllocateOp, ok |-> TRUE, error |-> NoError,
                           ret |-> [results |-> <<>>]]
                     ELSE last
  /\ UNCHANGED <<tables, nextId, reader>>

(* the step of allocateIncomeToBudgets at W.pc *)
allocateStep(W) ==
  LET same == [w |-> W, budgets |-> budgets, allocations |-> allocations,
               incomes |-> incomes, nextId |-> nextId, last |-> last]
      allocation == W.allocations[W.i]
      result(results) == [op |-> AllocateOp, ok |-> TRUE, error |-> NoError,
                          ret |-> [results |-> results]]
  IN CASE W.pc = "getBudget" ->
            LET budget == getBudget(allocation.categoryId, allocation.month)
            IN [same EXCEPT !.w =
                  [W EXCEPT !.budget = budget,
                            !.pc = IF budget.id = Null THEN "setBudgetGet"
                                   ELSE "updateBudget"]]
       [] W.pc = "setBudgetGet" ->
            [same EXCEPT !.w =
               [W EXCEPT !.existing = getBudget(allocation.categoryId,
                                                allocation.month),
                         !.pc = "setBudgetWrite"]]
       [] W.pc = "setBudgetWrite" ->
            LET r == setBudgetWrite(W.existing, allocation.categoryId,
                                    allocation.month, allocation.amount, 0)
            IN [same EXCEPT
                  !.budgets = r.budgets,
                  !.nextId = [nextId EXCEPT !.budgets = r.nid],
                  !.w = [W EXCEPT !.budget = r.ret, !.pc = "addAllocation"]]
       [] W.pc = "updateBudget" ->
            [same EXCEPT
               !.budgets = update(budgets, W.budget.id,
                             allocatedBudgetChanges(W.budget,
                                                    allocation.amount)),
               !.w = [W EXCEPT !.pc = "addAllocation"]]
       [] W.pc = "addAllocation" ->
            LET allocationId == nextId.allocations
                results == Append(W.results,
                             [allocationId |-> allocationId,
                              budgetId |-> W.budget.id,
                              categoryId |-> allocation.categoryId,
                              amount |-> allocation.amount])
                more == W.i < Len(W.allocations)
                returns == ~more /\ ~truthy(W.incomeId)
            IN [same EXCEPT
                  !.allocations = allocations \cup
                     {[id |-> allocationId, incomeId |-> W.incomeId,
                       budgetId |-> W.budget.id,
                       amount |-> allocation.amount, type |-> W.type]},
                  !.nextId = [nextId EXCEPT !.allocations = @ + 1],
                  !.w = [W EXCEPT !.results = results,
                                  !.i = IF more THEN W.i + 1 ELSE W.i,
                                  !.pc = IF more THEN "getBudget"
                                         ELSE IF returns THEN "done"
                                         ELSE "markIncome"],
                  !.last = IF returns THEN result(results) ELSE last]
       [] W.pc = "markIncome" ->
            [same EXCEPT
               !.incomes = markIncomeAsAllocatedIn(incomes, W.incomeId),
               !.w = [W EXCEPT !.pc = "done"],
               !.last = result(W.results)]

StepAllocateIncomeToBudgets(w) ==
  /\ writers[w].op = AllocateOp
  /\ writers[w].pc # "done"
  /\ LET n == allocateStep(writers[w])
     IN /\ writers' = [writers EXCEPT ![w] = n.w]
        /\ budgets' = n.budgets
        /\ allocations' = n.allocations
        /\ incomes' = n.incomes
        /\ nextId' = n.nextId
        /\ last' = n.last
  /\ UNCHANGED <<expenses, subsidies, carryovers, calls, reader,
                 catalog, useCurrentMonth>>

CarryOverOp == "processCarryOver"

StartProcessCarryOver(w, categoryId, fromMonth, action, carriedAmount) ==
  /\ Accepted(w)
  /\ writers' = [writers EXCEPT ![w] =
       [op |-> CarryOverOp, pc |-> "remaining",
        call |-> calls + 1, before |-> tables, ok |-> TRUE,
        categoryId |-> categoryId, fromMonth |-> fromMonth,
        action |-> action, carriedAmount |-> carriedAmount,
        toMonth |-> nextMonthOf(fromMonth), rd |-> NewRead,
        remainingBudget |-> 0, amountToCarry |-> 0, carryoverId |-> Null,
        nextBudget |-> NoRecord, existing |-> NoRecord,
        newBudget |-> NoRecord]]
  /\ UNCHANGED <<tables, nextId, last, reader>>

(* the step of processCarryOver at W.pc *)
carryOverStep(W) ==
  LET same == [w |-> W, budgets |-> budgets, allocations |-> allocations,
               carryovers |-> carryovers, nextId |-> nextId, last |-> last]
      carried == IF W.action = "carry" THEN W.amountToCarry ELSE 0
      result == [op |-> CarryOverOp, ok |-> TRUE, error |-> NoError,
                 ret |-> [success |-> TRUE, carryoverId |-> W.carryoverId,
                          action |-> W.action, fromMonth |-> W.fromMonth,
                          toMonth |-> W.toMonth,
                          remainingBudget |-> W.remainingBudget,
                          carriedAmount |-> carried]]
  IN CASE W.pc = "remaining" ->
            LET rd == readStep(W.rd, W.categoryId, W.fromMonth)
                remainingBudget == remainingOf(rd)
                amountToCarry == amountToCarryOf(W.carriedAmount,
                                                 remainingBudget)
                read == [W EXCEPT !.rd = NewRead,
                                  !.remainingBudget = remainingBudget,
                                  !.amountToCarry = amountToCarry]
            IN IF rd.at # 4 THEN [same EXCEPT !.w = [W EXCEPT !.rd = rd]]
               ELSE IF nothingToCarry(remainingBudget)
                 THEN [same EXCEPT
                         !.w = [read EXCEPT !.pc = "done"],
                         !.last = [op |-> CarryOverOp, ok |-> TRUE,
                                   error |-> NoError,
                                   ret |-> [success |-> FALSE,
                                            message |->
                                              "No remaining budget to carry over"]]]
               ELSE IF excessCarry(amountToCarry, remainingBudget)
                 THEN [same EXCEPT
                         !.w = [read EXCEPT !.pc = "done", !.ok = FALSE],
                         !.last = [op |-> CarryOverOp, ok |-> FALSE,
                                   error |-> Error(
                                     "Cannot carry more than remaining budget",
                                     [cause |-> Undefined]),
                                   ret |-> NoRet]]
                 ELSE [same EXCEPT !.w = [read EXCEPT !.pc = "addCarryover"]]
       [] W.pc = "addCarryover" ->
            LET doCarry == carriesForward(W.action, W.amountToCarry)
                added == [W EXCEPT !.carryoverId = nextId.carryovers]
            IN [same EXCEPT
                  !.carryovers = carryovers \cup
                     {[id |-> nextId.carryovers, categoryId |-> W.categoryId,
                       fromMonth |-> W.fromMonth, toMonth |-> W.toMonth,
                       remainingBudget |-> W.remainingBudget,
                       carriedAmount |-> carried, action |-> W.action]},
                  !.nextId = [nextId EXCEPT !.carryovers = @ + 1],
                  !.w = [added EXCEPT !.pc = IF doCarry THEN "getBudget"
                                             ELSE "done"],
                  !.last = IF doCarry THEN last
                           ELSE [result EXCEPT
                                   !.ret.carryoverId = nextId.carryovers]]
       [] W.pc = "getBudget" ->
            LET nextBudget == getBudget(W.categoryId, W.toMonth)
            IN [same EXCEPT !.w =
                  [W EXCEPT !.nextBudget = nextBudget,
                            !.pc = IF nextBudget.id # Null THEN "updateBudget"
                                   ELSE "setBudgetGet"]]
       [] W.pc = "updateBudget" ->
            [same EXCEPT
               !.budgets = update(budgets, W.nextBudget.id,
                             carriedBudgetChanges(W.nextBudget,
                                                  W.amountToCarry)),
               !.w = [W EXCEPT !.pc = "getNewBudget"]]
       [] W.pc = "setBudgetGet" ->
            [same EXCEPT !.w =
               [W EXCEPT !.existing = getBudget(W.categoryId, W.toMonth),
                         !.pc = "setBudgetWrite"]]
       [] W.pc = "setBudgetWrite" ->
            LET r == setBudgetWrite(W.existing, W.categoryId, W.toMonth, 0,
                                    W.amountToCarry)
            IN [same EXCEPT
                  !.budgets = r.budgets,
                  !.nextId = [nextId EXCEPT !.budgets = r.nid],
                  !.w = [W EXCEPT !.pc = "getNewBudget"]]
       [] W.pc = "getNewBudget" ->
            [same EXCEPT !.w =
               [W EXCEPT !.newBudget = getBudget(W.categoryId, W.toMonth),
                         !.pc = "addAllocation"]]
       [] W.pc = "addAllocation" ->
            [same EXCEPT
               !.allocations = allocations \cup
                  {[id |-> nextId.allocations, incomeId |-> Null,
                    budgetId |-> W.newBudget.id,
                    amount |-> W.amountToCarry, type |-> "carryover"]},
               !.nextId = [nextId EXCEPT !.allocations = @ + 1],
               !.w = [W EXCEPT !.pc = "done"],
               !.last = result]

StepProcessCarryOver(w) ==
  /\ writers[w].op = CarryOverOp
  /\ writers[w].pc # "done"
  /\ LET n == carryOverStep(writers[w])
     IN /\ writers' = [writers EXCEPT ![w] = n.w]
        /\ budgets' = n.budgets
        /\ allocations' = n.allocations
        /\ carryovers' = n.carryovers
        /\ nextId' = n.nextId
        /\ last' = n.last
  /\ UNCHANGED <<incomes, expenses, subsidies, calls, reader,
                 catalog, useCurrentMonth>>

NextAsync ==
  \/ \E op \in ReadOps, c \in CategoryIds, m \in Months :
       StartRead(op, c, m)
  \/ StepRead
  \/ \E w \in 1..MaxWriters, L \in AllocationLists :
       StartAllocateIncomeToBudgets(w, Null, L, "income")
  \/ \E w \in 1..MaxWriters : StepAllocateIncomeToBudgets(w)
  \/ \E w \in 1..MaxWriters, d \in Dates, c \in CategoryIds, a \in Amounts,
        f \in CategoryIds :
       StartCreateExpenseWithSubsidy(w, d, c, a, f)
  \/ \E w \in 1..MaxWriters : StepCreateExpenseWithSubsidy(w)
  \/ \E w \in 1..MaxWriters : FailCreateExpenseWithSubsidy(w)
  \/ \E w \in 1..MaxWriters, c \in CategoryIds, m \in Months,
        act \in CarryActions, ca \in {Null} \cup Amounts :
       StartProcessCarryOver(w, c, m, act, ca)
  \/ \E w \in 1..MaxWriters : StepProcessCarryOver(w)

SpecAsync == Init /\ [][NextAsync]_vars

(* Two subsidised expenses in flight at a time, for the recipients 2 and *)
(* 3 and the donor 1; the ledger holds a Budget of 1 for the donor and   *)
(* of 0 for each recipient                                               *)
RaceDonor == 1
RaceRecipients == {2, 3}

InitRace ==
  \E d \in Dates :
    LET month == getMonthFromDate(formatDate(d))
        b1 == setBudgetIn({}, FirstIds.budgets, RaceDonor, month, 1, 0)
        b2 == setBudgetIn(b1.budgets, b1.nid, 2, month, 0, 0)
        b3 == setBudgetIn(b2.budgets, b2.nid, 3, month, 0, 0)
    IN /\ budgets = b3.budgets
       /\ nextId = [FirstIds EXCEPT !.budgets = b3.nid]
       /\ incomes = {}
       /\ allocations = {}
       /\ expenses = {}
       /\ subsidies = {}
       /\ carryovers = {}
       /\ envelopes = {}
       /\ categories = {}
       /\ monthlySnapshots = {}
       /\ calls = 0
       /\ writers = <<Idle, Idle>>
       /\ reader = Idle
       /\ last = [op |-> "setBudget", ok |-> TRUE, error |-> NoError,
                  ret |-> b3.ret]
       /\ useCurrentMonth = month

NextRace ==
  \/ \E w \in DOMAIN writers, d \in Dates, c \in RaceRecipients,
        a \in Amounts :
       StartCreateExpenseWithSubsidy(w, d, c, a, RaceDonor)
  \/ \E w \in DOMAIN writers : StepCreateExpenseWithSubsidy(w)
  \/ \E w \in DOMAIN writers : FailCreateExpenseWithSubsidy(w)

SpecRace == InitRace /\ [][NextRace]_vars

----------------------------------------------------------------------------
(* The ledger after a first income allocation, then MaxCalls calls *)

InitAllocated ==
  \E L \in AllocationLists :
    LET r == allocateLoop([budgets |-> {}, allocations |-> {},
                           nid |-> FirstIds, results |-> <<>>],
                          Null, L, "income", 1)
    IN /\ budgets = r.budgets
       /\ allocations = r.allocations
       /\ nextId = r.nid
       /\ incomes = {}
       /\ expenses = {}
       /\ subsidies = {}
       /\ carryovers = {}
       /\ envelopes = {}
       /\ categories = {}
       /\ monthlySnapshots = {}
       /\ calls = 0
       /\ writers = [w \in 1..MaxWriters |-> Idle]
       /\ reader = Idle
       /\ last = [op |-> "allocateIncomeToBudgets", ok |-> TRUE,
                  error |-> NoError, ret |-> [results |-> r.results]]
       /\ useCurrentMonth \in Months

SpecAllocated == InitAllocated /\ [][Next]_vars

(* The ledger that only takes allocations, expenses with an amount above *)
(* 0, and carry-overs                                                    *)
ExpenseAmounts == Amounts \ {0}

NextSpending ==
  \/ \E i \in {Null} \cup IncomeIds, L \in AllocationLists,
        t \in AllocationTypes :
       AllocateIncomeToBudgets(i, L, t)
  \/ \E d \in Dates, c \in CategoryIds, a \in ExpenseAmounts :
       CreateExpense(d, c, a)
  \/ \E d \in Dates, c \in CategoryIds, a \in ExpenseAmounts,
        f \in CategoryIds :
       CreateExpenseWithSubsidy(d, c, a, f)
  \/ \E c \in CategoryIds, m \in Months, act \in CarryActions,
        ca \in {Null} \cup Amounts :
       ProcessCarryOver(c, m, act, ca)

SpecSpending == Init /\ [][NextSpending]_vars

----------------------------------------------------------------------------
(* Envelopes, categories, dashboard reads, snapshots, backup and restore *)

EnvelopeIds == {1, 2}
EnvelopeNames == {"Savings"}
CategoryNames == {"Investasi"}
Orders == {0}                     \* order passed to createEnvelope/Category

CreateEnvelope(name, order) ==
  /\ Counted
  /\ envelopes' = envelopes \cup
       {[id |-> nextId.envelopes, name |-> name, order |-> order]}
  /\ nextId' = [nextId EXCEPT !.envelopes = @ + 1]
  /\ last' = [op |-> "createEnvelope", ok |-> TRUE, error |-> NoError,
              ret |-> [id |-> nextId.envelopes, name |-> name,
                       order |-> order]]
  /\ UNCHANGED <<tables, categories, monthlySnapshots>>

(* the rows in the order of their order field, then of their primary key *)
RECURSIVE sortByOrder(_)
sortByOrder(rows) ==
  IF rows = {} THEN <<>>
  ELSE LET r == CHOOSE x \in rows :
                  \A y \in rows :
                    \/ x.order < y.order
                    \/ (x.order = y.order /\ x.id <= y.id)
       IN <<r>> \o sortByOrder(rows \ {r})

(* the key paths the schema indexes in the two tables read with orderBy *)
schema ==
  [envelopes |-> {"id", "name"},
   categories |-> {"id", "envelopeId", "name", "[envelopeId+name]"}]

(* the error of a query on a key path that the schema does not index *)
(* (its message names the key path and the object store)                *)
SchemaError(keyPath, table) ==
  Error("KeyPath on object store is not indexed",
        [keyPath |-> keyPath, table |-> table])

(* table.orderBy(keyPath).toArray(): the rows in index order, and a *)
(* rejection when the table has no index on keyPath                 *)
orderBy(table, rows, keyPath) ==
  IF keyPath \in schema[table]
    THEN [error |-> NoError, rows |-> sortByOrder(rows)]
    ELSE [error |-> SchemaError(keyPath, table), rows |-> <<>>]

getAllEnvelopes == orderBy("envelopes", envelopes, "order")

DeleteEnvelope(id) ==
  /\ Counted
  /\ LET cats == {c \in categories : c.envelopeId = id}
     IN /\ budgets' = {b \in budgets :
                         \A cat \in cats : b.categoryId # cat.id}
        /\ expenses' = {e \in expenses :
                          \A cat \in cats : e.categoryId # cat.id}
        /\ categories' = categories \ cats
  /\ envelopes' = {e \in envelopes : e.id # id}
  /\ last' = [op |-> "deleteEnvelope", ok |-> TRUE, error |-> NoError,
              ret |-> NoRet]
  /\ UNCHANGED <<incomes, allocations, subsidies, carryovers,
                 monthlySnapshots, nextId>>

CreateCategory(envelopeId, name, order) ==
  /\ Counted
  /\ categories' = categories \cup
       {[id |-> nextId.categories, envelopeId |-> envelopeId,
         name |-> name, order |-> order]}
  /\ nextId' = [nextId EXCEPT !.categories = @ + 1]
  /\ last' = [op |-> "createCategory", ok |-> TRUE, error |-> NoError,
              ret |-> [id |-> nextId.categories, envelopeId |-> envelopeId,
                       name |-> name, order |-> order]]
  /\ UNCHANGED <<tables, envelopes, monthlySnapshots>>

getAllCategories == orderBy("categories", categories, "order")

getCategoriesByEnvelope(envelopeId) ==
  sortByOrder({c \in categories : c.envelopeId = envelopeId})

DeleteCategory(id) ==
  /\ Counted
  /\ budgets' = {b \in budgets : b.categoryId # id}
  /\ expenses' = {e \in expenses : e.categoryId # id}
  /\ categories' = {c \in categories : c.id # id}
  /\ last' = [op |-> "deleteCategory", ok |-> TRUE, error |-> NoError,
              ret |-> NoRet]
  /\ UNCHANGED <<incomes, allocations, subsidies, carryovers, envelopes,
                 monthlySnapshots, nextId>>

getIncomesByMonth(month) == {x \in incomes : x.month = month}

getTotalIncome(month) == SumAmount(getIncomesByMonth(month))

getExpensesByMonth(month) == {e \in expenses : e.month = month}

(* the for-loop of getEnvelopeTotal from category i on *)
RECURSIVE envelopeTotalLoop(_, _, _, _)
envelopeTotalLoop(cats, month, i, total) ==
  IF i > Len(cats) THEN total
  ELSE envelopeTotalLoop(cats, month, i + 1,
                         total + getBudgetRemaining(cats[i].id, month))

getEnvelopeTotal(envelopeId, month) ==
  envelopeTotalLoop(getCategoriesByEnvelope(envelopeId), month, 1, 0)

(* the for-loop of getDashboardSummary from envelope i on *)
RECURSIVE totalRemainingLoop(_, _, _, _)
totalRemainingLoop(envs, month, i, totalRemaining) ==
  IF i > Len(envs) THEN totalRemaining
  ELSE totalRemainingLoop(envs, month, i + 1,
                          totalRemaining + getEnvelopeTotal(envs[i].id, month))

RECURSIVE SumTotalBudget(_)
SumTotalBudget(S) == IF S = {} THEN 0
                     ELSE LET r == CHOOSE x \in S : TRUE
                          IN r.totalBudget + SumTotalBudget(S \ {r})

(* budgetUtilization is the quotient per / of, in percent; the error *)
(* field holds what the call throws, NoError when it returns         *)
getDashboardSummary(month) ==
  LET totalIncome == getTotalIncome(month)
      exps == getExpensesByMonth(month)
      totalExpense == SumAmount(exps)
      envs == getAllEnvelopes
      totalRemaining == totalRemainingLoop(envs.rows, month, 1, 0)
      totalBudget == SumTotalBudget(getBudgetsByMonth(month))
  IN IF envs.error # NoError THEN [error |-> envs.error] ELSE
     [error |-> NoError,
      month |-> month,
      totalIncome |-> totalIncome,
      totalExpense |-> totalExpense,
      totalBudget |-> totalBudget,
      totalRemaining |-> totalRemaining,
      savedAmount |-> totalIncome - totalExpense,
      budgetUtilization |-> IF totalBudget > 0
                              THEN [per |-> totalExpense * 100,
                                    of |-> totalBudget]
                              ELSE [per |-> 0, of |-> 1],
      overBudgetCount |-> Cardinality({e \in exps : e.isOverBudget})]

(* the for-loop of getCategoriesWithRemainingBudget from category i on *)
RECURSIVE remainingBudgetLoop(_, _, _, _)
remainingBudgetLoop(cats, month, i, results) ==
  IF i > Len(cats) THEN results
  ELSE LET remaining == getBudgetRemaining(cats[i].id, month)
       IN remainingBudgetLoop(cats, month, i + 1,
            IF remaining > 0
              THEN Append(results,
                          [category |-> cats[i], remaining |-> remaining,
                           breakdown |->
                             getBudgetBreakdown(cats[i].id, month)])
              ELSE results)

(* the error field holds what the call throws, NoError when it returns *)
getCategoriesWithRemainingBudget(month) ==
  LET cats == getAllCategories
  IN IF cats.error # NoError
       THEN [error |-> cats.error, results |-> <<>>]
       ELSE [error |-> NoError,
             results |-> remainingBudgetLoop(cats.rows, month, 1, <<>>)]

CreateMonthlySnapshot(month) ==
  /\ Counted
  /\ LET result == getDashboardSummary(month)
         summary == [f \in DOMAIN result \ {"error"} |-> result[f]]
         existing == first({x \in monthlySnapshots : x.month = month})
     IN IF result.error # NoError
          THEN /\ monthlySnapshots' = monthlySnapshots
               /\ nextId' = nextId
               /\ last' = [op |-> "createMonthlySnapshot", ok |-> FALSE,
                           error |-> result.error, ret |-> NoRet]
        ELSE IF existing.id # Null
          THEN /\ monthlySnapshots' =
                    update(monthlySnapshots, existing.id, summary)
               /\ nextId' = nextId
               /\ last' = [op |-> "createMonthlySnapshot", ok |-> TRUE,
                           error |-> NoError, ret |-> [id |-> existing.id]]
          ELSE /\ monthlySnapshots' = monthlySnapshots \cup
                    {[id |-> nextId.monthlySnapshots] @@ summary}
               /\ nextId' = [nextId EXCEPT !.monthlySnapshots = @ + 1]
               /\ last' = [op |-> "createMonthlySnapshot", ok |-> TRUE,
                           error |-> NoError,
                           ret |-> [id |-> nextId.monthlySnapshots]]
  /\ UNCHANGED <<tables, envelopes, categories>>

(* a field of a backup document: <<v>> when present, <<>> when absent *)
Present(v) == <<v>>
Absent == <<>>

(* toArray: the rows of a table as an array in primary-key order *)
RECURSIVE toArray(_)
toArray(table) ==
  IF table = {} THEN <<>>
  ELSE <<first(table)>> \o toArray(table \ {first(table)})

exportAllData ==
  [version |-> Present("1.0"),
   envelopes |-> Present(toArray(envelopes)),
   categories |-> Present(toArray(categories)),
   budgets |-> Present(toArray(budgets)),
   incomes |-> Present(toArray(incomes)),
   allocations |-> Present(toArray(allocations)),
   expenses |-> Present(toArray(expenses)),
   subsidies |-> Present(toArray(subsidies)),
   carryovers |-> Present(toArray(carryovers)),
   monthlySnapshots |-> Present(toArray(monthlySnapshots))]

(* variant: an empty envelopes array is refused as well *)
invalidBackup_EmptyEnvelopes(data) ==
  \/ data.version = Absent
  \/ data.envelopes = Absent
  \/ data.envelopes = Present(<<>>)

(* if (!data.version || !data.envelopes) *)
invalidBackup(data) ==
  \/ data.version = Absent
  \/ data.version = Present("")
  \/ data.envelopes = Absent

(* variant: the records get fresh keys from the key generator nid *)
bulkAdd_FreshKeys(field, nid) ==
  IF field = Absent \/ field = Present(<<>>) THEN {}
  ELSE {[field[1][i] EXCEPT !.id = nid + i - 1] : i \in 1..Len(field[1])}

(* if (data.x?.length) await db.x.bulkAdd(data.x), on the cleared table: *)
(* each record is stored under the id it carries                         *)
bulkAdd(field, nid) ==
  IF field = Absent \/ field = Present(<<>>) THEN {}
  ELSE {field[1][i] : i \in 1..Len(field[1])}

(* the key generator after the rows are stored: past the largest key *)
keyAfter(nid, rows) ==
  IF \E r \in rows : r.id >= nid
    THEN 1 + (CHOOSE k \in {r.id : r \in rows} :
                \A r \in rows : r.id <= k)
    ELSE nid

ImportAllData(data) ==
  /\ Counted
  /\ IF invalidBackup(data)
       THEN /\ last' = [op |-> "importAllData", ok |-> FALSE,
                        error |-> Error("Invalid backup file format",
                                        [cause |-> Undefined]),
                        ret |-> NoRet]
            /\ UNCHANGED <<tables, catalog, nextId>>
       ELSE /\ envelopes' = bulkAdd(data.envelopes, nextId.envelopes)
            /\ categories' = bulkAdd(data.categories, nextId.categories)
            /\ budgets' = bulkAdd(data.budgets, nextId.budgets)
            /\ incomes' = bulkAdd(data.incomes, nextId.incomes)
            /\ allocations' = bulkAdd(data.allocations, nextId.allocations)
            /\ expenses' = bulkAdd(data.expenses, nextId.expenses)
            /\ subsidies' = bulkAdd(data.subsidies, nextId.subsidies)
            /\ carryovers' = bulkAdd(data.carryovers, nextId.carryovers)
            /\ monthlySnapshots' =
                 bulkAdd(data.monthlySnapshots, nextId.monthlySnapshots)
            /\ nextId' =
                 [t \in DOMAIN nextId |->
                    keyAfter(nextId[t], bulkAdd(data[t], nextId[t]))]
            /\ last' = [op |-> "importAllData", ok |-> TRUE,
                        error |-> NoError,
                        ret |-> [success |-> TRUE,
                                 message |-> "Data imported successfully"]]

(* backup documents passed to importAllData, besides the export itself *)
EmptyBackup ==
  [version |-> Present("1.0"), envelopes |-> Present(<<>>),
   categories |-> Present(<<>>), budgets |-> Present(<<>>),
   incomes |-> Present(<<>>), allocations |-> Present(<<>>),
   expenses |-> Present(<<>>), subsidies |-> Present(<<>>),
   carryovers |-> Present(<<>>), monthlySnapshots |-> Present(<<>>)]

(* no envelopes, one budget, and no monthlySnapshots field *)
BudgetBackup ==
  [EmptyBackup EXCEPT
     !.budgets = Present(<<[id |-> 3, categoryId |-> 1,
                            month |-> CHOOSE m \in Months : TRUE,
                            budgetAmount |-> 1, carriedOver |-> 0,
                            totalBudget |-> 1]>>),
     !.monthlySnapshots = Absent]

Backups ==
  {EmptyBackup, BudgetBackup,
   [BudgetBackup EXCEPT !.version = Absent],
   [BudgetBackup EXCEPT !.envelopes = Absent]}

(* The store after setupInitialData, with two categories: two envelopes, *)
(* a category in the first one and one in either, an income, and its    *)
(* allocation to the two categories                                     *)
InitSetup ==
  \E envelopeId \in EnvelopeIds, d \in Dates, a \in IncomeAmounts,
     L \in [1..2 -> AllocationEntries] :
    LET month == getMonthFromDate(formatDate(d))
        r == allocateLoop([budgets |-> {}, allocations |-> {},
                           nid |-> FirstIds, results |-> <<>>],
                          1, L, "income", 1)
    IN /\ L[1].categoryId = 1
       /\ L[2].categoryId = 2
       /\ envelopes = {[id |-> 1, name |-> "Living Cost", order |-> 1],
                       [id |-> 2, name |-> "Savings", order |-> 2]}
       /\ categories = {[id |-> 1, envelopeId |-> 1, name |-> "Makan",
                         order |-> 1],
                        [id |-> 2, envelopeId |-> envelopeId,
                         name |-> "Dana Darurat",
                         order |-> IF envelopeId = 1 THEN 2 ELSE 1]}
       /\ incomes = {[id |-> 1, date |-> formatDate(d), month |-> month,
                      amount |-> a, isAllocated |-> TRUE]}
       /\ budgets = r.budgets
       /\ allocations = r.allocations
       /\ expenses = {}
       /\ subsidies = {}
       /\ carryovers = {}
       /\ monthlySnapshots = {}
       /\ nextId = [r.nid EXCEPT !.envelopes = 3, !.categories = 3,
                                 !.incomes = 2]
       /\ calls = 0
       /\ writers = [w \in 1..MaxWriters |-> Idle]
       /\ reader = Idle
       /\ last = [op |-> "setupInitialData", ok |-> TRUE, error |-> NoError,
                  ret |-> [success |-> TRUE]]
       /\ useCurrentMonth \in Months

NextSetup ==
  \/ \E c \in CategoryIds, m \in Months, b \in Amounts,
        co \in CarriedOverInputs :
       SetBudget(c, m, b, co)
  \/ \E d \in Dates, a \in IncomeAmounts : CreateIncome(d, a)
  \/ \E d \in Dates, c \in CategoryIds, a \in Amounts :
       CreateExpense(d, c, a)
  \/ \E d \in Dates, c \in CategoryIds, a \in Amounts, f \in CategoryIds :
       CreateExpenseWithSubsidy(d, c, a, f)
  \/ \E e \in ExpenseIds : DeleteExpense(e)
  \/ \E c \in CategoryIds, m \in Months, act \in CarryActions,
        ca \in {Null} \cup Amounts :
       ProcessCarryOver(c, m, act, ca)
  \/ \E n \in EnvelopeNames, o \in Orders : CreateEnvelope(n, o)
  \/ \E e \in EnvelopeIds : DeleteEnvelope(e)
  \/ \E e \in EnvelopeIds, n \in CategoryNames, o \in Orders :
       CreateCategory(e, n, o)
  \/ \E c \in CategoryIds : DeleteCategory(c)
  \/ \E m \in Months : CreateMonthlySnapshot(m)
  \/ \E data \in Backups : ImportAllData(data)
  \/ ImportAllData(exportAllData)

SpecSetup == InitSetup /\ [][NextSetup]_vars

----------------------------------------------------------------------------
(* The month shown by the pages (useCurrentMonth) and the month's close *)

PeriodYears == { <<"0","0","9","9">>, <<"2","0","2","5">>,
                 <<"9","9","9","9">> }

(* the periods "YYYY-01" .. "YYYY-12" of the years above *)
PeriodInputs ==
  {y \o <<"-">> \o padStart2(String(m)) : y \in PeriodYears, m \in 1..12}

NextMonth ==
  /\ calls < MaxCalls
  /\ calls' = calls + 1
  /\ useCurrentMonth' = nextMonthOf(useCurrentMonth)
  /\ UNCHANGED <<tables, catalog, nextId, last, writers, reader>>

PrevMonth ==
  /\ calls < MaxCalls
  /\ calls' = calls + 1
  /\ useCurrentMonth' = prevMonthOf(useCurrentMonth)
  /\ UNCHANGED <<tables, catalog, nextId, last, writers, reader>>

GoToMonth(month) ==
  /\ calls < MaxCalls
  /\ calls' = calls + 1
  /\ useCurrentMonth' = month
  /\ UNCHANGED <<tables, catalog, nextId, last, writers, reader>>

(* the ledger holds one Budget, of category 1 in the month shown *)
InitPeriods ==
  \E month \in PeriodInputs :
    LET r == setBudgetIn({}, FirstIds.budgets, 1, month, 1, 0)
    IN /\ useCurrentMonth = month
       /\ budgets = r.budgets
       /\ nextId = [FirstIds EXCEPT !.budgets = r.nid]
       /\ incomes = {}
       /\ allocations = {}
       /\ expenses = {}
       /\ subsidies = {}
       /\ carryovers = {}
       /\ envelopes = {}
       /\ categories = {}
       /\ monthlySnapshots = {}
       /\ calls = 0
       /\ writers = [w \in 1..MaxWriters |-> Idle]
       /\ reader = Idle
       /\ last = [op |-> "setBudget", ok |-> TRUE, error |-> NoError,
                  ret |-> [id |-> FirstIds.budgets]]

NextPeriods ==
  \/ NextMonth
  \/ PrevMonth
  \/ \E month \in PeriodInputs : GoToMonth(month)
  \/ \E c \in CategoryIds, act \in CarryActions :
       ProcessCarryOver(c, useCurrentMonth, act, Null)

SpecPeriods == InitPeriods /\ [][NextPeriods]_vars

----------------------------------------------------------------------------
(* Vocabulary of the properties *)

(* the period of a date: its first 7 characters *)
PeriodOf(d) == [i \in 1..7 |-> d[i]]

(* every period a Budget row can have *)
AllMonths == Months \cup {nextMonthOf(m) : m \in Months}

(* the sum of the amount field over the rows of a table, by primary key *)
RECURSIVE TotalUpTo(_, _)
TotalUpTo(rows, n) ==
  IF n = 0 THEN 0
  ELSE TotalUpTo(rows, n - 1)
         + (IF \E r \in rows : r.id = n
              THEN (CHOOSE r \in rows : r.id = n).amount ELSE 0)

Total(rows, keys) == TotalUpTo(rows, keys - 1)

BudgetRows(c, p) == {b \in budgets : b.categoryId = c /\ b.month = p}

Spent(c, p) ==
  Total({e \in expenses : e.categoryId = c /\ e.month = p}, nextId.expenses)

Received(c, p) ==
  Total({s \in subsidies : s.toCategoryId = c /\ s.month = p},
        nextId.subsidies)

Given(c, p) ==
  Total({s \in subsidies : s.fromCategoryId = c /\ s.month = p},
        nextId.subsidies)

(* the InsufficientBudget information useCreateExpense.create keeps *)
subsidyInfo(err, categoryId, amount) ==
  [categoryId |-> categoryId,
   amount |-> amount,
   available |-> IF err.available = Undefined \/ err.available = 0
                   THEN 0 ELSE err.available,
   required |-> IF err.required = Undefined \/ err.required = 0
                  THEN amount ELSE err.required]

----------------------------------------------------------------------------
C7_InsufficientLeavesStore ==
  [][\A d \in Dates, c \in CategoryIds, a \in Amounts :
       ( /\ CreateExpense(d, c, a)
         /\ getBudgetRemaining(c, PeriodOf(d)) < a )
       => /\ ~last'.ok
          /\ UNCHANGED <<tables, nextId>>]_vars

C7_Witness ==
  /\ last.op = "createExpense"
  /\ ~last.ok
  /\ last.error.message = "BUDGET_INSUFFICIENT"
  /\ \E b \in budgets : b.totalBudget > 0
  /\ expenses = {}

(* C8: the InsufficientBudget error of createExpense carries required =    *)
(* the amount requested and available = the remaining at the time of the   *)
(* call, so that useCreateExpense's subsidyInfo shows the real balance.    *)
C8_ErrorCarriesFields ==
  [][\A d \in Dates, c \in CategoryIds, a \in Amounts :
       ( /\ CreateExpense(d, c, a)
         /\ ~last'.ok )
       => /\ last'.error.required = a
          /\ last'.error.available = getBudgetRemaining(c, PeriodOf(d))
          /\ subsidyInfo(last'.error, c, a).available
               = getBudgetRemaining(c, PeriodOf(d))]_vars

C14_SetBudgetIdempotent ==
  [][\A c \in CategoryIds, m \in Months, X \in Amounts,
        Y \in CarriedOverInputs :
       ( /\ last'.op = "setBudget"
         /\ SetBudget(c, m, X, Y) )
       => LET again == setBudgetIn(budgets', nextId'.budgets, c, m, X, Y)
          IN /\ \E b \in budgets' :
                  /\ BudgetRows(c, m)' = {b}
                  /\ b.budgetAmount = X
                  /\ b.carriedOver = Y
                  /\ b.totalBudget = X + Y
                  /\ \A o \in BudgetRows(c, m) : b.id = o.id
                  /\ last'.ret = b
             /\ again.budgets = budgets'
             /\ again.nid = nextId'.budgets
             /\ again.ret = last'.ret
             /\ ( /\ last.op = "setBudget"
                  /\ last.ret.categoryId = c
                  /\ last.ret.month = m
                  /\ last.ret.budgetAmount = X
                  /\ last.ret.carriedOver = Y )
                => /\ budgets' = budgets
                   /\ nextId' = nextId
                   /\ last'.ret = last.ret]_vars

C14_Witness ==
  /\ last.op = "setBudget"
  /\ \E a \in allocations :
       /\ a.budgetId = last.ret.id
       /\ a.amount > last.ret.budgetAmount
  /\ \E b \in budgets : b = last.ret

(* C15: there is at most one Budget record for each (categoryId, period). *)
C15_BudgetKeyUnique ==
  \A b1 \in budgets, b2 \in budgets :
    (b1.categoryId = b2.categoryId /\ b1.month = b2.month) => b1 = b2

C15_Witness ==
  /\ last.op = "setBudget"
  /\ \E b \in budgets :
       /\ b.id = last.ret.id
       /\ Cardinality({a \in allocations : a.budgetId = b.id}) = 2
  /\ Cardinality(budgets) = 1

(* the entries of an allocations argument that name category c, period p *)
EntriesFor(L, c, p) ==
  {k \in 1..Len(L) : L[k].categoryId = c /\ L[k].month = p}

(* the sum of the amounts of the entries K of L *)
RECURSIVE SumOfEntries(_, _, _)
SumOfEntries(L, K, n) ==
  IF n = 0 THEN 0
  ELSE SumOfEntries(L, K, n - 1) + (IF n \in K THEN L[n].amount ELSE 0)

(* C16: allocateIncomeToBudgets(incomeId, L, type) handles the entries of  *)
(* L in input order; for each (category, period) named in L the Budget is  *)
(* created with budgetAmount = totalBudget = the sum of its entries and    *)
(* carriedOver = 0 when absent, else budgetAmount and totalBudget grow by  *)
(* that sum and carriedOver stays; the k-th of the |L| new Allocation rows *)
(* is {incomeId, budgetId of the k-th entry's Budget, its amount, type}.   *)
C16_AllocationEntries ==
  [][\A i \in {Null} \cup IncomeIds, L \in AllocationLists,
        t \in AllocationTypes :
       ( /\ last'.op = "allocateIncomeToBudgets"
         /\ AllocateIncomeToBudgets(i, L, t) )
       => /\ \A c \in CategoryIds, p \in CallMonths :
               LET K == EntriesFor(L, c, p)
                   total == SumOfEntries(L, K, Len(L))
               IN IF K = {}
                    THEN BudgetRows(c, p)' = BudgetRows(c, p)
                  ELSE IF BudgetRows(c, p) = {}
                    THEN \E b \in budgets' :
                           /\ BudgetRows(c, p)' = {b}
                           /\ \A o \in budgets : o.id # b.id
                           /\ b.budgetAmount = total
                           /\ b.carriedOver = 0
                           /\ b.totalBudget = total
                    ELSE \A o \in BudgetRows(c, p) :
                           \E b \in budgets' :
                             /\ BudgetRows(c, p)' = {b}
                             /\ b.id = o.id
                             /\ b.budgetAmount = o.budgetAmount + total
                             /\ b.totalBudget = o.totalBudget + total
                             /\ b.carriedOver = o.carriedOver
          /\ allocations \subseteq allocations'
          /\ Cardinality(allocations' \ allocations) = Len(L)
          /\ \A k \in 1..Len(L) :
               \E a \in allocations' \ allocations :
                 /\ a.id = nextId.allocations + k - 1
                 /\ a.incomeId = i
                 /\ a.amount = L[k].amount
                 /\ a.type = t
                 /\ \E b \in BudgetRows(L[k].categoryId, L[k].month)' :
                      a.budgetId = b.id
                 /\ last'.ret.results[k].allocationId = a.id
                 /\ last'.ret.results[k].categoryId = L[k].categoryId
          /\ \A j \in 1..Len(L), k \in 1..Len(L) :
               ( /\ j < k
                 /\ BudgetRows(L[j].categoryId, L[j].month) = {}
                 /\ BudgetRows(L[k].categoryId, L[k].month) = {}
                 /\ L[j].categoryId # L[k].categoryId )
               => \A bj \in BudgetRows(L[j].categoryId, L[j].month)',
                     bk \in BudgetRows(L[k].categoryId, L[k].month)' :
                    bj.id < bk.id
          /\ UNCHANGED <<expenses, subsidies, carryovers>>]_vars

C16_Witness ==
  /\ last.op = "allocateIncomeToBudgets"
  /\ Len(last.ret.results) = 2
  /\ last.ret.results[1].budgetId = last.ret.results[2].budgetId
  /\ Cardinality(allocations) = 2
  /\ \E b \in budgets :
       /\ b.id = last.ret.results[1].budgetId
       /\ b.carriedOver > 0
       /\ b.budgetAmount
            = last.ret.results[1].amount + last.ret.results[2].amount

----------------------------------------------------------------------------
(* Reads on a snapshot T of the tables, in the order of tables *)

SpentIn(T, c, p) ==
  SumAmount({e \in T[4] : e.categoryId = c /\ e.month = p})

ReceivedIn(T, c, p) ==
  SumAmount({t \in T[5] : t.toCategoryId = c /\ t.month = p})

GivenIn(T, c, p) ==
  SumAmount({t \in T[5] : t.fromCategoryId = c /\ t.month = p})

RemainingIn(T, c, p) ==
  LET b == getBudgetIn(T[1], c, p)
  IN IF b.id = Null THEN 0
     ELSE b.totalBudget + ReceivedIn(T, c, p) - SpentIn(T, c, p)
            - GivenIn(T, c, p)

BreakdownIn(T, c, p) ==
  LET b == getBudgetIn(T[1], c, p)
  IN IF b.id = Null
       THEN [originalBudget |-> 0, carriedOver |-> 0, totalBudget |-> 0,
             actualSpent |-> 0, subsidyReceived |-> 0, subsidyGiven |-> 0,
             totalSpent |-> 0, remaining |-> 0]
       ELSE [originalBudget |-> b.budgetAmount,
             carriedOver |-> b.carriedOver,
             totalBudget |-> b.totalBudget,
             actualSpent |-> SpentIn(T, c, p),
             subsidyReceived |-> ReceivedIn(T, c, p),
             subsidyGiven |-> GivenIn(T, c, p),
             totalSpent |-> SpentIn(T, c, p) + GivenIn(T, c, p),
             remaining |-> RemainingIn(T, c, p)]

ReadValueIn(T, op, c, p) ==
  IF op = "getBudgetRemaining" THEN [remaining |-> RemainingIn(T, c, p)]
  ELSE BreakdownIn(T, c, p)

(* C12: when a store write of createExpenseWithSubsidy fails, the store  *)
(* is left exactly as it was before the call: once the failed call is    *)
(* over, and no call was made after it, the tables equal the tables at   *)
(* the time it was called.                                               *)
C12_SubsidyAllOrNothing ==
  \A w \in 1..MaxWriters :
    (/\ writers[w].op = CreateExpenseWithSubsidyOp
     /\ writers[w].pc = "done"
     /\ ~writers[w].ok
     /\ writers[w].call = calls)
    => tables = writers[w].before

BeforeLastSubsidy ==
  LET r == last.ret
  IN << {IF b.categoryId = r.expense.categoryId /\ b.month = r.expense.month
           THEN [b EXCEPT !.totalBudget = @ - r.deficit] ELSE b
         : b \in budgets},
        incomes, allocations,
        {x \in expenses : x.id # r.expenseId},
        {t \in subsidies : t.id # r.subsidyId},
        carryovers >>

C23_NoBudgetReadsZero ==
  \A c \in CategoryIds, p \in AllMonths :
    BudgetRows(c, p) = {}
    => /\ getBudgetRemaining(c, p) = 0
       /\ getBudgetBreakdown(c, p)
            = [originalBudget |-> 0, carriedOver |-> 0, totalBudget |-> 0,
               actualSpent |-> 0, subsidyReceived |-> 0, subsidyGiven |-> 0,
               totalSpent |-> 0, remaining |-> 0]

(* a pair without a Budget row has a spent Expense and a received Subsidy *)
C23_Witness ==
  \E c \in CategoryIds, p \in Months :
    /\ BudgetRows(c, p) = {}
    /\ Spent(c, p) > 0
    /\ Received(c, p) > 0
    /\ getBudgetRemaining(c, p) = 0
    /\ getBudgetBreakdown(c, p).actualSpent = 0


(* C26: allocateIncomeToBudgets(id, ...) with an id that references no *)
(* Income record ends in an error, raised by markIncomeAsAllocated(id). *)
C26_UnknownIncomeNotFound ==
  [][last'.op = "allocateIncomeToBudgets" =>
     \A i \in IncomeIds, L \in AllocationLists, t \in AllocationTypes :
       ( /\ ~ \E x \in incomes : x.id = i
         /\ AllocateIncomeToBudgets(i, L, t) )
       => ~last'.ok]_vars


(* C27: an Expense is written with isOverBudget = true if and only if the *)
(* category's remaining just before its creation was strictly less than   *)
(* its amount.                                                            *)
C27_OverBudgetIffSubsidyNeeded ==
  [][last'.op \in {"createExpense", "createExpenseWithSubsidy"} =>
     \A x \in expenses' :
       x \notin expenses
       => (x.isOverBudget
             <=> getBudgetRemaining(x.categoryId, x.month) < x.amount)]_vars


C29_BudgetCreatedOnSubsidy ==
  [][last'.op = "createExpenseWithSubsidy" =>
     \A d \in Dates, c \in CategoryIds, a \in Amounts, f \in CategoryIds :
       ( /\ BudgetRows(c, getMonthFromDate(formatDate(d))) = {}
         /\ CreateExpenseWithSubsidy(d, c, a, f)
         /\ last'.ok )
       => \E b \in budgets' :
            /\ b.categoryId = c
            /\ b.month = getMonthFromDate(formatDate(d))]_vars


(* the records a backup document holds for a table *)
RowsOf(field) ==
  IF field = Absent THEN {} ELSE {field[1][i] : i \in 1..Len(field[1])}

(* C24: importAllData(exportAllData()) succeeds and leaves every table    *)
(* (envelopes, categories, budgets, incomes, allocations, expenses,       *)
(* subsidies, carryovers, monthlySnapshots) with exactly the same records, *)
(* fields and ids.                                                        *)
C24_BackupRoundTrip ==
  [][last'.op = "importAllData" =>
     (ImportAllData(exportAllData)
      => /\ last'.ok
         /\ tables' = tables
         /\ catalog' = catalog)]_vars

(* a store with envelopes, categories, budgets, incomes, allocations, *)
(* an expense and a subsidy has been exported and imported            *)
C24_Witness ==
  /\ last.op = "importAllData"
  /\ last.ok
  /\ envelopes # {}
  /\ categories # {}
  /\ budgets # {}
  /\ incomes # {}
  /\ allocations # {}
  /\ expenses # {}
  /\ subsidies # {}

(* C25: importAllData(data) fails with 'Invalid backup file format' when  *)
(* data.version or data.envelopes is absent, and then no table is cleared *)
(* or modified; a document with a version and an empty envelopes array is *)
(* accepted: every table is cleared and holds the document's records.     *)
C25_ImportValidation ==
  [][last'.op = "importAllData" =>
     \A data \in Backups \cup {exportAllData} :
       ImportAllData(data)
       => /\ (data.version = Absent \/ data.envelopes = Absent)
             => /\ ~last'.ok
                /\ last'.error.message = "Invalid backup file format"
                /\ UNCHANGED <<tables, catalog>>
          /\ (data.version = Present("1.0")
                /\ data.envelopes = Present(<<>>))
             => /\ last'.ok
                /\ envelopes' = {}
                /\ categories' = RowsOf(data.categories)
                /\ budgets' = RowsOf(data.budgets)
                /\ incomes' = RowsOf(data.incomes)
                /\ allocations' = RowsOf(data.allocations)
                /\ expenses' = RowsOf(data.expenses)
                /\ subsidies' = RowsOf(data.subsidies)
                /\ carryovers' = RowsOf(data.carryovers)
                /\ monthlySnapshots' = RowsOf(data.monthlySnapshots)]_vars

(* a document with an empty envelopes array has been imported over a *)
(* store that had envelopes, categories, incomes and allocations     *)
C25_Witness ==
  /\ last.op = "importAllData"
  /\ last.ok
  /\ nextId.envelopes > 1
  /\ nextId.allocations > 1
  /\ envelopes = {}
  /\ categories = {}
  /\ incomes = {}
  /\ allocations = {}

(* the sum of f over the finite set S *)
RECURSIVE SumOver(_, _)
SumOver(f, S) ==
  IF S = {} THEN 0
  ELSE LET x == CHOOSE y \in S : TRUE
       IN f[x] + SumOver(f, S \ {x})

(* C30: getEnvelopeTotal(e, p) is the sum of getBudgetRemaining(c, p) over *)
(* exactly the Categories c with envelopeId = e, and                       *)
(* getDashboardSummary(p) returns, with totalRemaining the sum of          *)
(* getEnvelopeTotal over all Envelopes.                                    *)
C30_EnvelopeTotals ==
  \A p \in AllMonths :
    /\ \A e \in EnvelopeIds :
         LET ids == {c.id : c \in {x \in categories : x.envelopeId = e}}
         IN getEnvelopeTotal(e, p)
              = SumOver([c \in ids |-> getBudgetRemaining(c, p)], ids)
    /\ LET ids == {e.id : e \in envelopes}
           result == getDashboardSummary(p)
       IN /\ result.error = NoError
          /\ result.totalRemaining
               = SumOver([e \in ids |-> getEnvelopeTotal(e, p)], ids)


(* the sum of the amounts, and of the totalBudgets, of rows, by id *)
AmountOf(rows) ==
  LET ids == {r.id : r \in rows}
  IN SumOver([k \in ids |-> (CHOOSE r \in rows : r.id = k).amount], ids)

TotalBudgetOf(rows) ==
  LET ids == {r.id : r \in rows}
  IN SumOver([k \in ids |-> (CHOOSE r \in rows : r.id = k).totalBudget],
             ids)

(* C31: getDashboardSummary(p) returns a summary with totalIncome = the   *)
(* sum of the Income amounts of p, totalExpense = the sum of the Expense  *)
(* amounts of p (no subsidy amount in it), totalBudget = the sum of       *)
(* totalBudget over                                                       *)
(* the Budgets of p, savedAmount = totalIncome - totalExpense,            *)
(* budgetUtilization = 0 when totalBudget is 0, and overBudgetCount = the *)
(* number of Expenses of p with isOverBudget = true.                      *)
C31_DashboardSummary ==
  \A p \in AllMonths :
    LET summary == getDashboardSummary(p)
        income == AmountOf({x \in incomes : x.month = p})
        expense == AmountOf({e \in expenses : e.month = p})
        budget == TotalBudgetOf({b \in budgets : b.month = p})
    IN /\ summary.error = NoError
       /\ summary.totalIncome = income
       /\ summary.totalExpense = expense
       /\ summary.totalBudget = budget
       /\ summary.savedAmount = income - expense
       /\ budget = 0 => summary.budgetUtilization.per = 0
       /\ summary.overBudgetCount
            = Cardinality({e \in expenses : e.month = p /\ e.isOverBudget})

(* the rows in the order of their primary keys, which is the order in *)
(* which an auto-incremented table received them                      *)
RECURSIVE InsertionOrder(_)
InsertionOrder(rows) ==
  IF rows = {} THEN <<>>
  ELSE LET r == CHOOSE x \in rows : \A y \in rows : x.id <= y.id
       IN <<r>> \o InsertionOrder(rows \ {r})

(* C32: getCategoriesWithRemainingBudget(p) returns exactly the           *)
(* Categories whose getBudgetRemaining(c, p) is > 0, each paired with     *)
(* that remaining and with getBudgetBreakdown(c, p), in the insertion     *)
(* order of the Category records.                                         *)
C32_CategoriesWithRemainingBudget ==
  \A p \in AllMonths :
    LET result == getCategoriesWithRemainingBudget(p)
        kept == InsertionOrder({c \in categories :
                                 getBudgetRemaining(c.id, p) > 0})
    IN /\ result.error = NoError
       /\ result.results
            = [i \in 1..Len(kept) |->
                 [category |-> kept[i],
                  remaining |-> getBudgetRemaining(kept[i].id, p),
                  breakdown |-> getBudgetBreakdown(kept[i].id, p)]]

(* a period key: four year digits, a dash, and a month from 01 to 12 *)
IsPeriod(s) ==
  /\ Len(s) = 7
  /\ s[5] = "-"
  /\ \A i \in {1, 2, 3, 4, 6, 7} : \E d \in 1..10 : DigitChars[d] = s[i]
  /\ 10 * DigitVal(s[6]) + DigitVal(s[7]) \in 1..12

(* the digits of n, two or four of them, zero-padded *)
TwoDigits(n) == <<DigitChars[(n \div 10) + 1], DigitChars[(n % 10) + 1]>>

FourDigits(n) == TwoDigits(n \div 100) \o TwoDigits(n % 100)

(* the calendar month after period p *)
MonthAfter(p) ==
  LET y == 1000 * DigitVal(p[1]) + 100 * DigitVal(p[2])
             + 10 * DigitVal(p[3]) + DigitVal(p[4])
      m == 10 * DigitVal(p[6]) + DigitVal(p[7])
  IN IF m < 12 THEN SubSeq(p, 1, 5) \o TwoDigits(m + 1)
     ELSE FourDigits(y + 1) \o <<"-", "0", "1">>

(* the character code of a digit or a dash *)
CharCode(ch) == IF ch = "-" THEN 45 ELSE 48 + DigitVal(ch)

(* s sorts before t as a string *)
SortsBefore(s, t) ==
  \/ \E i \in 1..Len(s) :
       /\ i <= Len(t)
       /\ \A j \in 1..(i - 1) : s[j] = t[j]
       /\ CharCode(s[i]) < CharCode(t[i])
  \/ /\ Len(s) < Len(t)
     /\ \A j \in 1..Len(s) : s[j] = t[j]

(* C33: the toMonth that processCarryOver computes is the calendar month  *)
(* after fromMonth, as "YYYY-MM" with a zero-padded month (same year and  *)
(* month + 1 for 01..11, "(YYYY+1)-01" for 12), and sorts after fromMonth *)
(* as a string.                                                           *)
C33_NextPeriod ==
  \A r \in carryovers :
    IsPeriod(r.fromMonth) =>
      /\ r.toMonth = MonthAfter(r.fromMonth)
      /\ SortsBefore(r.fromMonth, r.toMonth)

(* nothing in the tables cs, bs, es and ss (categories, budgets, expenses *)
(* and subsidies) belongs to a category of ids or to an expense of gone   *)
Cascaded(cs, bs, es, ss, ids, gone) ==
  /\ \A c \in cs : c.id \notin ids
  /\ \A b \in bs : b.categoryId \notin ids
  /\ \A e \in es : e.categoryId \notin ids
  /\ \A t \in ss : /\ t.expenseId \notin gone
                   /\ t.fromCategoryId \notin ids
                   /\ t.toCategoryId \notin ids

(* C34: after deleteCategory(c) or deleteEnvelope(e) no Category of the   *)
(* deleted envelope and no Budget or Expense of a deleted category        *)
(* remains, and no Subsidy refers to a deleted Expense or to a deleted    *)
(* Category.                                                              *)
C34_DeleteCascade ==
  [][/\ last'.op = "deleteCategory" =>
          \A c \in CategoryIds :
            DeleteCategory(c)
            => \E gone \in SUBSET {e.id : e \in expenses} :
                 /\ gone = {e.id : e \in {x \in expenses :
                                             x.categoryId = c}}
                 /\ Cascaded(categories', budgets', expenses', subsidies',
                             {c}, gone)
     /\ last'.op = "deleteEnvelope" =>
          \A v \in EnvelopeIds :
            DeleteEnvelope(v)
            => \E ids \in SUBSET {c.id : c \in categories},
                  gone \in SUBSET {e.id : e \in expenses} :
                 /\ ids = {c.id : c \in {x \in categories :
                                           x.envelopeId = v}}
                 /\ gone = {e.id : e \in {x \in expenses :
                                           x.categoryId \in ids}}
                 /\ \A c \in categories' : c.envelopeId # v
                 /\ Cascaded(categories', budgets', expenses', subsidies',
                             ids, gone)]_vars

(* the sum of carriedAmount over the Carryovers of rows from c and p *)
CarriedSum(rows, c, p) ==
  LET ids == {r.id : r \in {x \in rows :
                              x.categoryId = c /\ x.fromMonth = p}}
  IN SumOver([k \in ids |->
                (CHOOSE r \in rows : r.id = k).carriedAmount], ids)

TotalRemainingIn(T, p) ==
  SumOver([c \in CategoryIds |-> RemainingIn(T, c, p)], CategoryIds)

MonthBefore(p) ==
  LET y == 1000 * DigitVal(p[1]) + 100 * DigitVal(p[2])
             + 10 * DigitVal(p[3]) + DigitVal(p[4])
      m == 10 * DigitVal(p[6]) + DigitVal(p[7])
  IN IF m > 1 THEN SubSeq(p, 1, 5) \o TwoDigits(m - 1)
     ELSE FourDigits(y - 1) \o <<"-", "1", "2">>

====
